---- MODULE Spec2Model ----
(***************************************************************************)
(* Model of obsidian-webdav-image-uploader: the WebDAV client              *)
(* (WebDavClient / WebDavClientInner) and the authenticated image loader   *)
(* (WebDavImageLoaderExtension / WebDavImageLoader).                       *)
(*                                                                         *)
(* JavaScript strings that the code takes apart (paths, URLs, tokens) are  *)
(* sequences of one-character strings; opaque strings (file names, header  *)
(* values) are TLA+ strings.                                               *)
(***************************************************************************)
EXTENDS Integers, Sequences, FiniteSets, TLC

----------------------------------------------------------------------------
(* Bounds of the model *)

\* longest path body (characters after the leading "/") the codec is run on
MaxPathLen == 3

\* most requests one client call may send before the model stops following it
MaxRequests == 6

\* how many edits of the settings tab a run follows
MaxSettingsEdits == 1

\* image elements in the document
MaxElements == 2

\* GETs the loader may have sent for the host still to write a src again
MaxLoads == 2

\* how many settled loadImage calls of one element wait for their turn before
\* the observer reports the element again
MaxResumes == 1

----------------------------------------------------------------------------
(* Characters *)

\* printable ASCII, code 32 .. 126 (index i holds the character of code i + 31);
\* the double quote, the backslash and the backtick are written by their code points
AsciiPrintable ==
    << " ", "!", "U+0022", "#", "$", "%", "&", "'", "(", ")", "*", "+", ",", "-", ".", "/",
       "0", "1", "2", "3", "4", "5", "6", "7", "8", "9", ":", ";", "<", "=", ">", "?",
       "@", "A", "B", "C", "D", "E", "F", "G", "H", "I", "J", "K", "L", "M", "N", "O",
       "P", "Q", "R", "S", "T", "U", "V", "W", "X", "Y", "Z", "[", "U+005C", "]", "^", "_",
       "U+0060", "a", "b", "c", "d", "e", "f", "g", "h", "i", "j", "k", "l", "m", "n", "o",
       "p", "q", "r", "s", "t", "u", "v", "w", "x", "y", "z", "{", "|", "}", "~" >>

IsAscii(c) == \E i \in 1..Len(AsciiPrintable) : AsciiPrintable[i] = c

\* every character of code 0 .. 255 (index i holds the character of code i - 1);
\* those of code 0 .. 31 and 127 .. 255 are written by their code points
Latin1 ==
    LET ControlChars ==
          << "U+0000", "U+0001", "U+0002", "U+0003", "U+0004", "U+0005", "U+0006", "U+0007",
             "U+0008", "U+0009", "U+000A", "U+000B", "U+000C", "U+000D", "U+000E", "U+000F",
             "U+0010", "U+0011", "U+0012", "U+0013", "U+0014", "U+0015", "U+0016", "U+0017",
             "U+0018", "U+0019", "U+001A", "U+001B", "U+001C", "U+001D", "U+001E", "U+001F" >>
        HighChars ==
          << "U+007F", "U+0080", "U+0081", "U+0082", "U+0083", "U+0084", "U+0085", "U+0086",
             "U+0087", "U+0088", "U+0089", "U+008A", "U+008B", "U+008C", "U+008D", "U+008E",
             "U+008F", "U+0090", "U+0091", "U+0092", "U+0093", "U+0094", "U+0095", "U+0096",
             "U+0097", "U+0098", "U+0099", "U+009A", "U+009B", "U+009C", "U+009D", "U+009E",
             "U+009F", "U+00A0", "U+00A1", "U+00A2", "U+00A3", "U+00A4", "U+00A5", "U+00A6",
             "U+00A7", "U+00A8", "U+00A9", "U+00AA", "U+00AB", "U+00AC", "U+00AD", "U+00AE",
             "U+00AF", "U+00B0", "U+00B1", "U+00B2", "U+00B3", "U+00B4", "U+00B5", "U+00B6",
             "U+00B7", "U+00B8", "U+00B9", "U+00BA", "U+00BB", "U+00BC", "U+00BD", "U+00BE",
             "U+00BF", "U+00C0", "U+00C1", "U+00C2", "U+00C3", "U+00C4", "U+00C5", "U+00C6",
             "U+00C7", "U+00C8", "U+00C9", "U+00CA", "U+00CB", "U+00CC", "U+00CD", "U+00CE",
             "U+00CF", "U+00D0", "U+00D1", "U+00D2", "U+00D3", "U+00D4", "U+00D5", "U+00D6",
             "U+00D7", "U+00D8", "U+00D9", "U+00DA", "U+00DB", "U+00DC", "U+00DD", "U+00DE",
             "U+00DF", "U+00E0", "U+00E1", "U+00E2", "U+00E3", "U+00E4", "U+00E5", "U+00E6",
             "U+00E7", "U+00E8", "U+00E9", "U+00EA", "U+00EB", "U+00EC", "U+00ED", "U+00EE",
             "U+00EF", "U+00F0", "U+00F1", "U+00F2", "U+00F3", "U+00F4", "U+00F5", "U+00F6",
             "U+00F7", "U+00F8", "U+00F9", "U+00FA", "U+00FB", "U+00FC", "U+00FD", "U+00FE",
             "U+00FF" >>
    IN  ControlChars \o AsciiPrintable \o HighChars

\* String.prototype.charCodeAt(0)
CharCode(c) == (CHOOSE i \in 1..Len(Latin1) : Latin1[i] = c) - 1

\* String.fromCharCode(n), n in 0 .. 255
FromCharCode(n) == Latin1[n + 1]

\* U+00E9, a character that is not ASCII
EAcute == "U+00E9"

\* the UTF-8 bytes of a character of code 0 .. 255
Utf8Bytes(c) ==
    LET n == CharCode(c)
    IN  IF n < 128 THEN <<n>> ELSE <<192 + (n \div 64), 128 + (n % 64)>>

HexDigits == <<"0", "1", "2", "3", "4", "5", "6", "7", "8", "9", "A", "B", "C", "D", "E", "F">>

PercentByte(b) == <<"%", HexDigits[(b \div 16) + 1], HexDigits[(b % 16) + 1]>>

RECURSIVE PercentBytes(_)
PercentBytes(bs) ==
    IF bs = <<>> THEN <<>> ELSE PercentByte(Head(bs)) \o PercentBytes(Tail(bs))

Letters == { AsciiPrintable[i] : i \in 34..59 } \cup { AsciiPrintable[i] : i \in 66..91 }

Digits == { AsciiPrintable[i] : i \in 17..26 }

\* characters encodeURIComponent leaves alone
UriUnescaped == Letters \cup Digits \cup {"-", "_", ".", "!", "~", "*", "'", "(", ")"}

\* characters encodeURI leaves alone in addition
UriReserved == {";", "/", "?", ":", "@", "&", "=", "+", "$", ",", "#"}

----------------------------------------------------------------------------
(* JavaScript string functions, as the code uses them *)

EncodeComponentChar(c) == IF c \in UriUnescaped THEN <<c>> ELSE PercentBytes(Utf8Bytes(c))

EncodeUriChar(c) ==
    IF c \in UriUnescaped \cup UriReserved THEN <<c>> ELSE PercentBytes(Utf8Bytes(c))

RECURSIVE encodeURIComponent(_)
encodeURIComponent(s) ==
    IF s = <<>> THEN <<>>
    ELSE EncodeComponentChar(Head(s)) \o encodeURIComponent(Tail(s))

RECURSIVE encodeURI(_)
encodeURI(s) ==
    IF s = <<>> THEN <<>> ELSE EncodeUriChar(Head(s)) \o encodeURI(Tail(s))

StartsWith(s, p) == Len(s) >= Len(p) /\ SubSeq(s, 1, Len(p)) = p

EndsWith(s, p) == Len(s) >= Len(p) /\ SubSeq(s, Len(s) - Len(p) + 1, Len(s)) = p

\* 0-based index of the first occurrence of p in s, -1 when there is none
IndexOf(s, p) ==
    LET hits == { i \in 0..(Len(s) - Len(p)) : SubSeq(s, i + 1, i + Len(p)) = p }
    IN  IF hits = {} THEN -1 ELSE CHOOSE i \in hits : \A j \in hits : i <= j

\* 0-based index of the last occurrence of p in s, -1 when there is none
LastIndexOf(s, p) ==
    LET hits == { i \in 0..(Len(s) - Len(p)) : SubSeq(s, i + 1, i + Len(p)) = p }
    IN  IF hits = {} THEN -1 ELSE CHOOSE i \in hits : \A j \in hits : i >= j

\* String.prototype.substring(a, b): arguments clamped to 0..length, swapped if a > b
Substring(s, a, b) ==
    LET Clamp(n) == IF n < 0 THEN 0 ELSE IF n > Len(s) THEN Len(s) ELSE n
        x == Clamp(a)
        y == Clamp(b)
    IN  IF x <= y THEN SubSeq(s, x + 1, y) ELSE SubSeq(s, y + 1, x)

\* String.prototype.replace(p, "") with a string pattern: the first occurrence goes
ReplaceFirstWithEmpty(s, p) ==
    LET i == IndexOf(s, p)
    IN  IF i < 0 THEN s ELSE SubSeq(s, 1, i) \o SubSeq(s, i + Len(p) + 1, Len(s))

\* String.prototype.split("/"): always at least one piece
RECURSIVE Split(_, _)
Split(s, sep) ==
    LET i == IndexOf(s, sep)
    IN  IF i < 0 THEN <<s>>
        ELSE <<SubSeq(s, 1, i)>> \o Split(SubSeq(s, i + 2, Len(s)), sep)

RECURSIVE Join(_, _)
Join(parts, sep) ==
    IF parts = <<>> THEN <<>>
    ELSE IF Len(parts) = 1 THEN parts[1]
    ELSE parts[1] \o sep \o Join(Tail(parts), sep)

RECURSIVE FilterNonEmpty(_)
FilterNonEmpty(parts) ==
    IF parts = <<>> THEN <<>>
    ELSE IF Head(parts) = <<>> THEN FilterNonEmpty(Tail(parts))
    ELSE <<Head(parts)>> \o FilterNonEmpty(Tail(parts))

\* segments.map((segment) => encodeURIComponent(segment))
RECURSIVE EncodeSegments(_)
EncodeSegments(parts) ==
    IF parts = <<>> THEN <<>>
    ELSE <<encodeURIComponent(Head(parts))>> \o EncodeSegments(Tail(parts))

----------------------------------------------------------------------------
(* atob: base64 decoding *)

Base64Alphabet ==
    << "A", "B", "C", "D", "E", "F", "G", "H", "I", "J", "K", "L", "M", "N", "O", "P",
       "Q", "R", "S", "T", "U", "V", "W", "X", "Y", "Z", "a", "b", "c", "d", "e", "f",
       "g", "h", "i", "j", "k", "l", "m", "n", "o", "p", "q", "r", "s", "t", "u", "v",
       "w", "x", "y", "z", "0", "1", "2", "3", "4", "5", "6", "7", "8", "9", "+", "/" >>

Base64Value(c) == (CHOOSE i \in 1..64 : Base64Alphabet[i] = c) - 1

\* what atob and btoa throw, in the place of the string they would return
InvalidCharacterError == <<"InvalidCharacterError">>

\* ASCII white space goes: tab, line feed, form feed, carriage return, space
RECURSIVE RemoveWhitespace(_)
RemoveWhitespace(s) ==
    IF s = <<>> THEN <<>>
    ELSE IF Head(s) \in {"U+0009", "U+000A", "U+000C", "U+000D", " "}
    THEN RemoveWhitespace(Tail(s))
    ELSE <<Head(s)>> \o RemoveWhitespace(Tail(s))

\* a text whose length is a multiple of 4 loses one or two "=" at its end
StripPadding(s) ==
    IF Len(s) % 4 = 0 /\ Len(s) > 0 /\ s[Len(s)] = "="
    THEN IF s[Len(s) - 1] = "="
         THEN SubSeq(s, 1, Len(s) - 2)
         ELSE SubSeq(s, 1, Len(s) - 1)
    ELSE s

\* the bytes one group of 2, 3 or 4 base64 digits stands for
Base64Group(g) ==
    LET v(i) == IF i <= Len(g) THEN Base64Value(g[i]) ELSE 0
        n    == ((v(1) * 64 + v(2)) * 64 + v(3)) * 64 + v(4)
        b1   == n \div 65536
        b2   == (n \div 256) % 256
        b3   == n % 256
    IN  IF Len(g) = 2 THEN <<b1>> ELSE IF Len(g) = 3 THEN <<b1, b2>> ELSE <<b1, b2, b3>>

RECURSIVE Base64Bytes(_)
Base64Bytes(s) ==
    IF Len(s) < 2 THEN <<>>
    ELSE IF Len(s) <= 4 THEN Base64Group(s)
    ELSE Base64Group(SubSeq(s, 1, 4)) \o Base64Bytes(SubSeq(s, 5, Len(s)))

RECURSIVE FromCharCodes(_)
FromCharCodes(bs) ==
    IF bs = <<>> THEN <<>> ELSE <<FromCharCode(Head(bs))>> \o FromCharCodes(Tail(bs))

\* atob(s): white space is skipped, padding is dropped, then a length of
\* 1 mod 4 or a character outside the alphabet throws
atob(s) ==
    LET t == StripPadding(RemoveWhitespace(s))
    IN  IF Len(t) % 4 = 1 \/ \E i \in 1..Len(t) : \A k \in 1..64 : Base64Alphabet[k] # t[i]
        THEN InvalidCharacterError
        ELSE FromCharCodes(Base64Bytes(t))

\* the base64 text of a sequence of bytes: four digits for every group of
\* 1, 2 or 3 bytes, the last group padded with "="
RECURSIVE Base64Text(_)
Base64Text(bs) ==
    LET g    == SubSeq(bs, 1, IF Len(bs) < 3 THEN Len(bs) ELSE 3)
        b(i) == IF i <= Len(g) THEN g[i] ELSE 0
        n    == (b(1) * 256 + b(2)) * 256 + b(3)
        d1   == Base64Alphabet[(n \div 262144) + 1]
        d2   == Base64Alphabet[((n \div 4096) % 64) + 1]
        d3   == Base64Alphabet[((n \div 64) % 64) + 1]
        d4   == Base64Alphabet[(n % 64) + 1]
    IN  IF bs = <<>> THEN <<>>
        ELSE IF Len(bs) = 1 THEN <<d1, d2, "=", "=">>
        ELSE IF Len(bs) = 2 THEN <<d1, d2, d3, "=">>
        ELSE <<d1, d2, d3, d4>> \o Base64Text(SubSeq(bs, 4, Len(bs)))

\* btoa(s): throws on a character of code above 255
btoa(s) ==
    IF \E i \in 1..Len(s) : \A k \in 1..Len(Latin1) : Latin1[k] # s[i]
    THEN InvalidCharacterError
    ELSE Base64Text([i \in 1..Len(s) |-> CharCode(s[i])])

----------------------------------------------------------------------------
(* State *)

VARIABLES
    \* plugin.settings
    settingsUrl,      \* settings.url
    settingsUsername, \* settings.username
    settingsPassword, \* settings.password, stored base64-encoded
    settingsToken,    \* settings.token, stored base64-encoded
    settingsEdits,    \* how many times a field of the settings tab was edited
    \* WebDavClient.client, the WebDavClientInner built last
    baseUrl,          \* settings.url without a trailing slash
    authHeader,       \* "Basic <credentials>" or ""
    \* the outstanding call on the client and where it stands
    call,             \* the public method called, its arguments, the client it runs on
    pc,               \* the request the call sends next
    depth,            \* how many times putFileContents / moveFile re-entered itself
    directories,      \* ensureDirectoryExists: the segments still to create
    currentPath,      \* ensureDirectoryExists: the prefix created so far
    log,              \* every request handed to requestUrl, with its answer
    result,           \* what the call returned or threw
    \* the WebDAV server the client talks to
    server,           \* the files and collections it holds, by url
    \* the path codec run on its own
    codecPc,
    codecPath,
    codecUrl,
    codecBack,
    \* the document: image elements and the theme
    origSrc,          \* the src each element was written with
    themeDark,        \* document.body has class "theme-dark"
    elSrc,            \* el.src
    elAttrs,          \* the attributes set on el
    elOnload,         \* el.onload is the revoke handler of an uncached load
    loadEventDue,     \* the browser still owes el.onload a load event for el's src
    \* WebDavImageLoader
    blobs,            \* Map: original url -> blob url
    pending,          \* loadImage calls waiting for their requestUrl
    loaderDestroyed,  \* WebDavImageLoader.destroy has run
    \* WebDavImageLoaderExtension
    images,           \* Set of tracked elements
    resuming,         \* loadImage calls whose await is settled, per element
    extDestroyed,     \* destroy has run, the observer is disconnected
    \* the platform
    nextBlob,         \* how many blob urls URL.createObjectURL has handed out
    revoked,          \* the blob urls passed to URL.revokeObjectURL
    gets              \* how many GETs the loader handed to requestUrl, by url and cache flag

clientVars == <<baseUrl, authHeader, call, pc, depth, directories, currentPath, log, result>>

codecVars == <<codecPc, codecPath, codecUrl, codecBack>>

settingsVars ==
    <<settingsUrl, settingsUsername, settingsPassword, settingsToken, settingsEdits>>

serverVars == <<server>>

\* a server the model does not look into: it may answer anything
AnyServer == [scripted |-> FALSE, files |-> {}, dirs |-> {}, files0 |-> {}, dirs0 |-> {}]

loaderVars ==
    <<origSrc, themeDark, elSrc, elAttrs, elOnload, loadEventDue, blobs, pending,
      loaderDestroyed, images, resuming, extDestroyed, nextBlob, revoked, gets>>

----------------------------------------------------------------------------
(* WebDavClient.getUrl / getPath and WebDavClientInner.encodePath / buildUrl *)

Slash == <<"/">>

\* `?token=${atob(token)}` when a token is configured, "" otherwise
\* atob throws on a token that is not base64, and so does the caller
QueryStr(token) ==
    IF Len(token) > 0
    THEN IF atob(token) = InvalidCharacterError
         THEN InvalidCharacterError
         ELSE <<"?", "t", "o", "k", "e", "n", "=">> \o atob(token)
    ELSE <<>>

getUrl(url, token, path) ==
    IF QueryStr(token) = InvalidCharacterError
    THEN InvalidCharacterError
    ELSE encodeURI(url \o path \o QueryStr(token))

getPath(url, token, publicUrl) ==
    IF QueryStr(token) = InvalidCharacterError
    THEN InvalidCharacterError
    ELSE ReplaceFirstWithEmpty(ReplaceFirstWithEmpty(publicUrl, url), QueryStr(token))

encodePath(path) == Join(EncodeSegments(Split(path, Slash)), Slash)

buildUrl(base, path) == base \o (IF StartsWith(path, Slash) THEN path ELSE Slash \o path)

\* constructor: this.baseUrl
NormalizeBaseUrl(url) == IF EndsWith(url, Slash) THEN SubSeq(url, 1, Len(url) - 1) ELSE url

\* path.substring(0, path.lastIndexOf("/"))
ParentOf(path) == Substring(path, 0, LastIndexOf(path, Slash))

\* path.split("/").filter((dir) => dir !== "")
DirectoriesOf(path) == FilterNonEmpty(Split(path, Slash))

----------------------------------------------------------------------------
(* Inputs *)

\* h://d/r, with and without the trailing slash the constructor removes
UrlRemote == <<"h", ":", "/", "/", "d", "/", "r">>

SettingsUrls == { UrlRemote, UrlRemote \o Slash }

\* "" (no token), "dA==" = btoa("t"), "YSBi" = btoa("a b"), "6Q==" = btoa("U+00E9")
TokenNone == <<>>

TokenT == <<"d", "A", "=", "=">>

TokenAB == <<"Y", "S", "B", "i">>

Tokens == { TokenNone, TokenT, TokenAB, <<"6", "Q", "=", "=">> }

PathChars == {"a", "/", " ", "%", EAcute}

RECURSIVE SeqsUpTo(_, _)
SeqsUpTo(S, n) ==
    IF n = 0 THEN { <<>> }
    ELSE LET shorter == SeqsUpTo(S, n - 1)
         IN  shorter \cup { Append(s, c) : s \in shorter, c \in S }

\* every server-relative path "/..." whose body has 1 .. MaxPathLen characters
CodecPaths == { Slash \o b : b \in SeqsUpTo(PathChars, MaxPathLen) \ { <<>> } }

----------------------------------------------------------------------------
(* WebDavClientInner: construction *)

\* getToken(username, password) of ./utils: base64 of "username:password"
GetToken(username, password) == btoa(username \o <<":">> \o password)

\* constructor: `Basic ${getToken(username, atob(password))}` when both are
\* set, "" otherwise; atob throws on a stored password that is not base64
AuthHeaderOf(username, password) ==
    IF username # <<>> /\ password # <<>>
    THEN IF atob(password) = InvalidCharacterError
         THEN InvalidCharacterError
         ELSE <<"B", "a", "s", "i", "c", " ">> \o GetToken(username, atob(password))
    ELSE <<>>

\* the credentials the settings hold when the plugin starts: none, or a user
\* name with the password as the settings tab stores it
NoCredentials == settingsUsername = <<>> /\ settingsPassword = <<>>

\* "user" and btoa("pass")
UserCredentials ==
    /\ settingsUsername = <<"u", "s", "e", "r">>
    /\ settingsPassword = <<"c", "G", "F", "z", "c", "w", "=", "=">>

\* the state right after `new WebDavClient(plugin)`: no call made yet
ClientConstructed ==
    /\ settingsEdits = 0
    /\ baseUrl = NormalizeBaseUrl(settingsUrl)
    /\ authHeader = AuthHeaderOf(settingsUsername, settingsPassword)
    /\ call = [op |-> "none"]
    /\ pc = "idle"
    /\ depth = 0
    /\ directories = <<>>
    /\ currentPath = <<>>
    /\ log = <<>>
    /\ result = [kind |-> "none"]

----------------------------------------------------------------------------
(* The document and WebDavImageLoader / WebDavImageLoaderExtension: construction *)

Elements == 1..MaxElements

\* values of el.src: an image on the configured server, an image elsewhere,
\* one of the two loading animations, a blob url
Remote(name) == [kind |-> "webdav", name |-> name]

Elsewhere == [kind |-> "other", name |-> "x"]

loadingDark == [kind |-> "data", name |-> "loadingDark"]

loadingLight == [kind |-> "data", name |-> "loadingLight"]

BlobUrl(n) == [kind |-> "blob", id |-> n]

\* el.src of an element without a source: ""
EmptySrc == [kind |-> "empty"]

RemoteUrls == { Remote("u1"), Remote("u2") }

OrigSrcs == RemoteUrls \cup { Elsewhere }

\* new WebDavImageLoader(plugin), new WebDavImageLoaderExtension(view, plugin):
\* an empty cache, an empty tracking set, the observer connected
LoaderConstructed ==
    /\ elSrc = origSrc
    /\ elAttrs = [el \in Elements |-> {}]
    /\ elOnload = [el \in Elements |-> FALSE]
    /\ loadEventDue = [el \in Elements |-> FALSE]
    /\ blobs = <<>>
    /\ pending = {}
    /\ loaderDestroyed = FALSE
    /\ images = {}
    /\ resuming = [el \in Elements |-> 0]
    /\ extDestroyed = FALSE
    /\ nextBlob = 0
    /\ revoked = {}
    /\ gets = [u \in RemoteUrls, c \in BOOLEAN |-> 0]

\* a document without images on the server, for the runs that are not about it
NoRemoteImages ==
    /\ origSrc = [el \in Elements |-> Elsewhere]
    /\ themeDark = FALSE
    /\ LoaderConstructed

----------------------------------------------------------------------------
(* The path codec on its own: getUrl, then getPath on what it returned *)

NoString == <<"<", "n", "o", "n", "e", ">">>

InitCodec ==
    /\ settingsUrl \in SettingsUrls
    /\ settingsToken \in Tokens
    /\ codecPath \in CodecPaths
    /\ codecPc = "path"
    /\ codecUrl = NoString
    /\ codecBack = NoString
    /\ (NoCredentials \/ UserCredentials)
    /\ ClientConstructed
    /\ server = AnyServer
    /\ NoRemoteImages

\* a call that throws leaves InvalidCharacterError where its result would be
CallGetUrl ==
    /\ codecPc = "path"
    /\ codecUrl' = getUrl(settingsUrl, settingsToken, codecPath)
    /\ codecPc' = "url"
    /\ UNCHANGED <<codecPath, codecBack, settingsVars, clientVars, serverVars, loaderVars>>

CallGetPath ==
    /\ codecPc = "url"
    /\ codecBack' = getPath(settingsUrl, settingsToken, codecUrl)
    /\ codecPc' = "back"
    /\ UNCHANGED <<codecPath, codecUrl, settingsVars, clientVars, serverVars, loaderVars>>

NextCodec == CallGetUrl \/ CallGetPath

vars == <<settingsVars, clientVars, serverVars, codecVars, loaderVars>>

SpecCodec == InitCodec /\ [][NextCodec]_vars

----------------------------------------------------------------------------
(* WebDavClientInner: requests, answers, errors *)

\* the statuses the server answers with in the model
Statuses == {200, 207, 404, 405, 409, 412, 500}

\* requestUrl rejecting (no HTTP answer at all), recorded as status 0
NetworkError == 0

Responses == Statuses \cup {NetworkError}

NoHeaders == <<>>

----------------------------------------------------------------------------
(* The WebDAV server behind requestUrl *)

ServerHas(s, url) == url \in s.files \cup s.dirs

\* the collection a url lies in
ServerParent(url) == Substring(url, 0, LastIndexOf(url, Slash))

\* the status a WebDAV server holding s answers a request with
ServerStatus(s, method, url, headers) ==
    IF method = "PUT"
    THEN IF ServerParent(url) \notin s.dirs THEN 409
         ELSE IF url \in s.dirs THEN 405
         ELSE IF url \in s.files THEN 204
         ELSE 201
    ELSE IF method = "MKCOL"
    THEN IF ServerHas(s, url) THEN 405
         ELSE IF ServerParent(url) \notin s.dirs THEN 409
         ELSE 201
    ELSE IF method = "MOVE"
    THEN IF url \notin s.files THEN 404
         ELSE IF ServerParent(headers["Destination"]) \notin s.dirs THEN 409
         ELSE IF ServerHas(s, headers["Destination"])
         THEN IF headers["Overwrite"] = "T" THEN 204 ELSE 412
         ELSE 201
    ELSE IF method = "DELETE"
    THEN IF ServerHas(s, url) THEN 204 ELSE 404
    ELSE IF method = "PROPFIND"
    THEN IF ServerHas(s, url) THEN 207 ELSE 404
    ELSE IF ServerHas(s, url) THEN 200 ELSE 404

\* what the server holds after it answered st
ServerHolds(s, method, url, headers, st) ==
    IF st >= 400
    THEN s
    ELSE IF method = "PUT"
    THEN [s EXCEPT !.files = @ \cup {url}]
    ELSE IF method = "MKCOL"
    THEN [s EXCEPT !.dirs = @ \cup {url}]
    ELSE IF method = "MOVE"
    THEN [s EXCEPT !.files = (@ \ {url}) \cup {headers["Destination"]}]
    ELSE IF method = "DELETE"
    THEN [s EXCEPT !.files = @ \ {url}, !.dirs = @ \ {url}]
    ELSE s

\* the answers requestUrl can come back with; 0 is the request failing
Answers(method, url, headers) ==
    IF server.scripted
    THEN { ServerStatus(server, method, url, headers) }
    ELSE Responses

ServerAfter(method, url, headers, st) ==
    IF server.scripted
    THEN ServerHolds(server, method, url, headers, st)
    ELSE server

\* request(): headers: { Authorization: this.authHeader, ...headers }
RequestHeaders(auth, headers) == headers @@ ("Authorization" :> auth)

\* the entry the log gets for one requestUrl call and its answer
Sent(method, url, headers, st) ==
    [method |-> method, url |-> url, configured |-> call.auth,
     headers |-> RequestHeaders(call.auth, headers), status |-> st]

\* handleResponseCode throws exactly for these
HandleResponseCodeThrows(st) == st >= 400

TransportError(st) == [type |-> "Transport", status |-> st]

NetworkFailure == [type |-> "Network"]

DestinationExists(path) == [type |-> "DestinationExists", path |-> path]

UploadFailed(fileName) == [type |-> "UploadFailed", fileName |-> fileName]

Throw(e) == result' = [kind |-> "throw", error |-> e] /\ pc' = "done"

Return(v) == result' = [kind |-> "return", value |-> v] /\ pc' = "done"

\* `this.client.<method>(...)`: the call runs on the WebDavClientInner that
\* WebDavClient.client holds when the method is invoked, and stays on it
OnClient(c) == c @@ [base |-> baseUrl, auth |-> authHeader]

\* this.buildUrl(this.encodePath(path)) in the client the call runs on
WireUrl(path) == buildUrl(call.base, encodePath(path))

\* where putFileContents / moveFile start, also when they call themselves
EntryPc(c) ==
    IF c.op = "uploadFile" THEN "put"
    ELSE IF c.overwrite THEN "move" ELSE "head"

\* the recursive call `await this.putFileContents(path, data)` /
\* `await this.moveFile(oldPath, newPath, overwrite)`
ReEnter ==
    /\ pc' = EntryPc(call)
    /\ depth' = depth + 1
    /\ UNCHANGED result

\* ensureDirectoryExists(path) up to its first MKCOL; with no segment it
\* returns at once and the caller re-enters itself
EnterEnsure(path) ==
    LET dirs == DirectoriesOf(path)
    IN  IF dirs = <<>>
        THEN ReEnter /\ UNCHANGED <<directories, currentPath>>
        ELSE /\ pc' = "mkcol"
             /\ directories' = dirs
             /\ currentPath' = <<>>
             /\ UNCHANGED <<depth, result>>

----------------------------------------------------------------------------
(* WebDavClient.uploadFile and WebDavClientInner.putFileContents *)

\* what putFileContents returns when its PUT was accepted: `return true` in the
\* frame that sent it; every frame that retried ends in a bare `return`
PutReturnValue(d) == IF d = 0 THEN "true" ELSE "undefined"

\* uploadFile after `await this.client.putFileContents(path, buffer)`
UploadFileReturn(success) ==
    IF success # "true"
    THEN Throw(UploadFailed(call.fileName))
    ELSE IF getUrl(settingsUrl, settingsToken, call.path) = InvalidCharacterError
    THEN Throw([type |-> "InvalidCharacterError"])
    ELSE Return([type |-> "FileInfo", fileName |-> call.fileName,
                 url |-> getUrl(settingsUrl, settingsToken, call.path)])

PathI == <<"/", "i">>

PathNI == <<"/", "n", "/", "i">>

PathABI == <<"/", "a", " ", "b", "/", "c", "/", "i">>

PathO == <<"/", "o">>

UploadPaths == { PathI, PathNI, PathABI }

FileNames == { "img.png" }

UploadFile ==
    /\ pc = "idle"
    /\ \E f \in FileNames, p \in UploadPaths \cup {codecPath} :
          call' = [op |-> "uploadFile", fileName |-> f, path |-> p]
    /\ pc' = "buffer"
    /\ UNCHANGED <<baseUrl, authHeader, depth, directories, currentPath, log, result>>
    /\ UNCHANGED <<settingsVars, serverVars, codecVars, loaderVars>>

\* uploadFile after `await file.arrayBuffer()`: when the file was read,
\* this.client.putFileContents is called on the client WebDavClient holds now;
\* when the read was rejected the await throws and the call ends there, with
\* no request sent
UploadFilePut ==
    /\ pc = "buffer"
    /\ \/ /\ call' = OnClient(call)
          /\ pc' = "put"
          /\ UNCHANGED result
       \/ /\ Throw([type |-> "FileReadError"])
          /\ UNCHANGED call
    /\ UNCHANGED <<baseUrl, authHeader, depth, directories, currentPath, log>>
    /\ UNCHANGED <<settingsVars, serverVars, codecVars, loaderVars>>

PutFileContents ==
    /\ pc = "put"
    /\ Len(log) < MaxRequests
    /\ \E st \in Answers("PUT", WireUrl(call.path), NoHeaders) :
          /\ log' = Append(log, Sent("PUT", WireUrl(call.path),
                                     "Content-Type" :> "application/octet-stream", st))
          /\ server' = ServerAfter("PUT", WireUrl(call.path), NoHeaders, st)
          /\ IF st = NetworkError
             THEN Throw(NetworkFailure) /\ UNCHANGED <<depth, directories, currentPath>>
             ELSE IF st = 409
             THEN EnterEnsure(ParentOf(call.path))
             ELSE IF HandleResponseCodeThrows(st)
             THEN Throw(TransportError(st)) /\ UNCHANGED <<depth, directories, currentPath>>
             ELSE UploadFileReturn(PutReturnValue(depth))
                  /\ UNCHANGED <<depth, directories, currentPath>>
    /\ UNCHANGED <<baseUrl, authHeader, call, settingsVars, codecVars, loaderVars>>

----------------------------------------------------------------------------
(* WebDavClientInner.ensureDirectoryExists: one turn of its loop *)

\* a loop that passes 405 and 409 on to handleResponseCode
MkcolToleratedMut(st) == ~HandleResponseCodeThrows(st)

\* a MKCOL answer the loop goes on after
MkcolTolerated(st) == st \in {405, 409} \/ ~HandleResponseCodeThrows(st)

EnsureDirectoryExists ==
    /\ pc = "mkcol"
    /\ Len(log) < MaxRequests
    /\ LET next == currentPath \o Slash \o Head(directories)
       IN  \E st \in Answers("MKCOL", WireUrl(next), NoHeaders) :
             /\ log' = Append(log, Sent("MKCOL", WireUrl(next), NoHeaders, st))
             /\ server' = ServerAfter("MKCOL", WireUrl(next), NoHeaders, st)
             /\ IF st = NetworkError
                THEN Throw(NetworkFailure) /\ UNCHANGED <<depth, directories, currentPath>>
                ELSE IF MkcolTolerated(st)
                THEN /\ currentPath' = next
                     /\ directories' = Tail(directories)
                     /\ IF Tail(directories) = <<>>
                        THEN ReEnter
                        ELSE UNCHANGED <<pc, depth, result>>
                ELSE Throw(TransportError(st))
                     /\ UNCHANGED <<depth, directories, currentPath>>
    /\ UNCHANGED <<baseUrl, authHeader, call, settingsVars, codecVars, loaderVars>>

----------------------------------------------------------------------------
(* WebDavClient.renameFile, WebDavClientInner.moveFile and exists *)

\* renameFile: this.client.moveFile(oldPath, newPath, false)
RenameOverwrite == FALSE

\* exists() taking a 200 for "no"
ExistsResultMut(st) ==
    IF st = 404 \/ st = 200 THEN "false"
    ELSE IF HandleResponseCodeThrows(st) THEN "throw"
    ELSE "false"

\* exists(): 200 is "yes", 404 is "no", any other status of 400 and above
\* throws, everything else is "no"
ExistsResult(st) ==
    IF st = 200 THEN "true"
    ELSE IF st = 404 THEN "false"
    ELSE IF HandleResponseCodeThrows(st) THEN "throw"
    ELSE "false"

\* moveFile not taking a 409 for a missing parent directory
MoveRetryStatusesMut == {404, 500}

\* the statuses moveFile takes for a missing parent directory
MoveRetryStatuses == {404, 409, 500}

NewPaths == { PathI, PathNI }

RenameFile ==
    /\ pc = "idle"
    /\ \E np \in NewPaths :
          call' = OnClient([op |-> "renameFile", oldPath |-> PathO, newPath |-> np,
                            overwrite |-> RenameOverwrite])
    /\ pc' = EntryPc(call')
    /\ UNCHANGED <<baseUrl, authHeader, depth, directories, currentPath, log, result>>
    /\ UNCHANGED <<settingsVars, serverVars, codecVars, loaderVars>>

MoveFile ==
    /\ pc = "idle"
    /\ \E np \in NewPaths, ow \in BOOLEAN :
          call' = OnClient([op |-> "moveFile", oldPath |-> PathO, newPath |-> np,
                            overwrite |-> ow])
    /\ pc' = EntryPc(call')
    /\ UNCHANGED <<baseUrl, authHeader, depth, directories, currentPath, log, result>>
    /\ UNCHANGED <<settingsVars, serverVars, codecVars, loaderVars>>

\* moveFile's `if (!overwrite)` block: the HEAD on the destination
MoveCheckExists ==
    /\ pc = "head"
    /\ Len(log) < MaxRequests
    /\ \E st \in Answers("HEAD", WireUrl(call.newPath), NoHeaders) :
          /\ log' = Append(log, Sent("HEAD", WireUrl(call.newPath), NoHeaders, st))
          /\ server' = ServerAfter("HEAD", WireUrl(call.newPath), NoHeaders, st)
          /\ IF st = NetworkError
             THEN Throw(NetworkFailure)
             ELSE IF ExistsResult(st) = "throw"
             THEN Throw(TransportError(st))
             ELSE IF ExistsResult(st) = "true"
             THEN Throw(DestinationExists(call.newPath))
             ELSE pc' = "move" /\ UNCHANGED result
    /\ UNCHANGED <<baseUrl, authHeader, call, depth, directories, currentPath>>
    /\ UNCHANGED <<settingsVars, codecVars, loaderVars>>

\* moveFile without its check for 412
MoveDestinationExistsMut(st) == FALSE

\* `if (response.status === 412)`: the MOVE found the destination
MoveDestinationExists(st) == st = 412

MoveHeaders(c) ==
    ("Destination" :> WireUrl(c.newPath)) @@ ("Overwrite" :> IF c.overwrite THEN "T" ELSE "F")

MoveRequest ==
    /\ pc = "move"
    /\ Len(log) < MaxRequests
    /\ \E st \in Answers("MOVE", WireUrl(call.oldPath), MoveHeaders(call)) :
          /\ log' = Append(log, Sent("MOVE", WireUrl(call.oldPath), MoveHeaders(call), st))
          /\ server' = ServerAfter("MOVE", WireUrl(call.oldPath), MoveHeaders(call), st)
          /\ IF st = NetworkError
             THEN Throw(NetworkFailure) /\ UNCHANGED <<depth, directories, currentPath>>
             ELSE IF st \in MoveRetryStatuses
             THEN EnterEnsure(ParentOf(call.newPath))
             ELSE IF MoveDestinationExists(st)
             THEN Throw(DestinationExists(call.newPath))
                  /\ UNCHANGED <<depth, directories, currentPath>>
             ELSE IF HandleResponseCodeThrows(st)
             THEN Throw(TransportError(st)) /\ UNCHANGED <<depth, directories, currentPath>>
             ELSE Return([type |-> "undefined"])
                  /\ UNCHANGED <<depth, directories, currentPath>>
    /\ UNCHANGED <<baseUrl, authHeader, call, settingsVars, codecVars, loaderVars>>

----------------------------------------------------------------------------
(* WebDavClient.testConnection and WebDavClientInner.customRequest *)

\* testConnection taking every status below 400 for success
TestConnectionResultMut(st) ==
    IF st < 400
    THEN [type |-> "null"]
    ELSE [type |-> "string", text |-> "Check connection failed", status |-> st]

\* testConnection on the answer of its PROPFIND
TestConnectionResult(st) ==
    IF st = 207
    THEN [type |-> "null"]
    ELSE [type |-> "string", text |-> "Check connection failed", status |-> st]

\* testConnection's catch: `${e}`
TestConnectionCaught(e) == [type |-> "string", text |-> "Error", error |-> e]

PathRoot == <<"/">>

\* the headers a caller hands to customRequest: none, Depth, or an
\* Authorization of its own, "Bearer x"
CallerHeaders ==
    { NoHeaders, "Depth" :> "0",
      "Authorization" :> <<"B", "e", "a", "r", "e", "r", " ", "x">> }

TestConnection ==
    /\ pc = "idle"
    /\ call' = OnClient([op |-> "testConnection", path |-> PathRoot,
                         method |-> "PROPFIND", headers |-> "Depth" :> "0"])
    /\ pc' = "custom"
    /\ UNCHANGED <<baseUrl, authHeader, depth, directories, currentPath, log, result>>
    /\ UNCHANGED <<settingsVars, serverVars, codecVars, loaderVars>>

CustomRequestCall ==
    /\ pc = "idle"
    /\ \E p \in { PathRoot, PathNI }, m \in { "PROPFIND", "GET" }, h \in CallerHeaders :
          call' = OnClient([op |-> "customRequest", path |-> p, method |-> m,
                            headers |-> h])
    /\ pc' = "custom"
    /\ UNCHANGED <<baseUrl, authHeader, depth, directories, currentPath, log, result>>
    /\ UNCHANGED <<settingsVars, serverVars, codecVars, loaderVars>>

CustomRequest ==
    /\ pc = "custom"
    /\ Len(log) < MaxRequests
    /\ \E st \in Answers(call.method, WireUrl(call.path), call.headers) :
          /\ log' = Append(log, Sent(call.method, WireUrl(call.path), call.headers, st))
          /\ server' = ServerAfter(call.method, WireUrl(call.path), call.headers, st)
          /\ IF call.op = "testConnection"
             THEN IF st = NetworkError
                  THEN Return(TestConnectionCaught(NetworkFailure))
                  ELSE Return(TestConnectionResult(st))
             ELSE IF st = NetworkError
                  THEN Throw(NetworkFailure)
                  ELSE Return([type |-> "response", status |-> st])
    /\ UNCHANGED <<baseUrl, authHeader, call, depth, directories, currentPath>>
    /\ UNCHANGED <<settingsVars, codecVars, loaderVars>>

----------------------------------------------------------------------------
(* The settings tab, section "basic", and WebDavClient.initClient *)

\* String.prototype.trim: white space at both ends goes
RECURSIVE trim(_)
trim(s) ==
    LET ws == {"U+0009", "U+000A", "U+000B", "U+000C", "U+000D", " ", "U+00A0"}
    IN  IF s # <<>> /\ Head(s) \in ws THEN trim(Tail(s))
        ELSE IF s # <<>> /\ s[Len(s)] \in ws THEN trim(SubSeq(s, 1, Len(s) - 1))
        ELSE s

\* Url: value.trim(), one trailing "/" cut, settings.url = value; the user
\* types " h://d/q/ "
UrlOnChange ==
    /\ settingsEdits < MaxSettingsEdits
    /\ \E value \in { <<" ", "h", ":", "/", "/", "d", "/", "q", "/", " ">> } :
          LET trimmed == trim(value)
          IN  settingsUrl' = IF EndsWith(trimmed, Slash)
                             THEN SubSeq(trimmed, 1, Len(trimmed) - 1)
                             ELSE trimmed
    /\ settingsEdits' = settingsEdits + 1
    /\ UNCHANGED <<settingsUsername, settingsPassword, settingsToken>>
    /\ UNCHANGED <<clientVars, serverVars, codecVars, loaderVars>>

\* Username: settings.username = value; the user clears the field or types "user"
UsernameOnChange ==
    /\ settingsEdits < MaxSettingsEdits
    /\ \E value \in { <<>>, <<"u", "s", "e", "r">> } : settingsUsername' = value
    /\ settingsEdits' = settingsEdits + 1
    /\ UNCHANGED <<settingsUrl, settingsPassword, settingsToken>>
    /\ UNCHANGED <<clientVars, serverVars, codecVars, loaderVars>>

\* Password: settings.password = btoa(value); when btoa throws the handler
\* ends there and the setting stays; the user types "word"
PasswordOnChange ==
    /\ settingsEdits < MaxSettingsEdits
    /\ \E value \in { <<"w", "o", "r", "d">> } :
          settingsPassword' = IF btoa(value) = InvalidCharacterError
                              THEN settingsPassword
                              ELSE btoa(value)
    /\ settingsEdits' = settingsEdits + 1
    /\ UNCHANGED <<settingsUrl, settingsUsername, settingsToken>>
    /\ UNCHANGED <<clientVars, serverVars, codecVars, loaderVars>>

\* Token: settings.token = btoa(value); the user types "a b", "U+00E9" or the
\* euro sign, which btoa cannot encode
TokenOnChange ==
    /\ settingsEdits < MaxSettingsEdits
    /\ \E value \in { <<"a", " ", "b">>, <<EAcute>>, <<"U+20AC">> } :
          settingsToken' = IF btoa(value) = InvalidCharacterError
                           THEN settingsToken
                           ELSE btoa(value)
    /\ settingsEdits' = settingsEdits + 1
    /\ UNCHANGED <<settingsUrl, settingsUsername, settingsPassword>>
    /\ UNCHANGED <<clientVars, serverVars, codecVars, loaderVars>>

\* initClient(): this.client = new WebDavClientInner(url, username, password)
\* from the settings as they are now; a call under way stays on the client it
\* started on. When the constructor throws, this.client is left as it was.
initClient ==
    /\ IF AuthHeaderOf(settingsUsername, settingsPassword) = InvalidCharacterError
       THEN UNCHANGED <<baseUrl, authHeader>>
       ELSE /\ baseUrl' = NormalizeBaseUrl(settingsUrl)
            /\ authHeader' = AuthHeaderOf(settingsUsername, settingsPassword)
    /\ UNCHANGED <<call, pc, depth, directories, currentPath, log, result>>
    /\ UNCHANGED <<settingsVars, serverVars, codecVars, loaderVars>>

----------------------------------------------------------------------------
(* The client: one call at a time, the server free to answer anything *)

InitClient ==
    /\ settingsUrl \in SettingsUrls
    /\ settingsToken = TokenT
    /\ (NoCredentials \/ UserCredentials)
    /\ ClientConstructed
    /\ server = AnyServer
    /\ NoRemoteImages
    /\ codecPc = "path"
    /\ codecPath = PathI
    /\ codecUrl = NoString
    /\ codecBack = NoString

NextClient ==
    \/ UploadFile
    \/ UploadFilePut
    \/ PutFileContents
    \/ EnsureDirectoryExists
    \/ RenameFile
    \/ MoveFile
    \/ MoveCheckExists
    \/ MoveRequest
    \/ TestConnection
    \/ CustomRequestCall
    \/ CustomRequest

SpecClient == InitClient /\ [][NextClient]_vars

----------------------------------------------------------------------------
(* The client while the settings tab is open: the fields are edited and the
   client is rebuilt at any moment, also while a call waits for its answer *)

NextSettings ==
    \/ UrlOnChange
    \/ UsernameOnChange
    \/ PasswordOnChange
    \/ TokenOnChange
    \/ initClient
    \/ UploadFile
    \/ UploadFilePut
    \/ PutFileContents
    \/ EnsureDirectoryExists
    \/ TestConnection
    \/ CustomRequestCall
    \/ CustomRequest

SpecSettings == InitClient /\ [][NextSettings]_vars

----------------------------------------------------------------------------
(* The client against a WebDAV server that keeps files and collections *)

PathN == <<"/", "n">>

PathAB == <<"/", "a", " ", "b">>

PathABC == <<"/", "a", " ", "b", "/", "c">>

\* the url the server knows a path by
UrlOf(base, path) == buildUrl(base, encodePath(path))

\* the servers a call can start against: the root collection is there, a file
\* or collection is there only when the collection it lies in is
ServerStates(base) ==
    { [scripted |-> TRUE, files |-> f, dirs |-> d \cup {base},
       files0 |-> f, dirs0 |-> d \cup {base}] :
         f \in SUBSET { UrlOf(base, PathO), UrlOf(base, PathI), UrlOf(base, PathNI) },
         d \in SUBSET { UrlOf(base, PathN), UrlOf(base, PathAB), UrlOf(base, PathABC) } }

ServerConsistent(s) ==
    \A url \in s.files \cup (s.dirs \ {baseUrl}) : ServerParent(url) \in s.dirs

InitServed ==
    /\ settingsUrl \in SettingsUrls
    /\ settingsToken = TokenT
    /\ (NoCredentials \/ UserCredentials)
    /\ ClientConstructed
    /\ server \in ServerStates(baseUrl)
    /\ ServerConsistent(server)
    /\ NoRemoteImages
    /\ codecPc = "path"
    /\ codecPath = PathI
    /\ codecUrl = NoString
    /\ codecBack = NoString

NextServed ==
    \/ UploadFile
    \/ UploadFilePut
    \/ PutFileContents
    \/ EnsureDirectoryExists
    \/ RenameFile
    \/ MoveFile
    \/ MoveCheckExists
    \/ MoveRequest

SpecServed == InitServed /\ [][NextServed]_vars

----------------------------------------------------------------------------
(* WebDavClient.deleteFile and downloadFile on the url getUrl made for a path *)

\* path.split("/").pop()
FileNameOf(path) == LET parts == Split(path, Slash) IN parts[Len(parts)]

\* deleteFile(url) up to the request of client.deleteFile: the url is the one
\* getUrl returned for the path that was uploaded
DeleteFile ==
    /\ pc = "done"
    /\ call.op = "uploadFile"
    /\ call.path = codecPath
    /\ codecPc = "url"
    /\ LET path == getPath(settingsUrl, settingsToken, codecUrl)
       IN  IF path = InvalidCharacterError
           THEN /\ call' = [op |-> "deleteFile", url |-> codecUrl]
                /\ Throw([type |-> "InvalidCharacterError"])
           ELSE /\ call' = OnClient([op |-> "deleteFile", url |-> codecUrl, path |-> path])
                /\ pc' = "delete"
                /\ result' = [kind |-> "none"]
    /\ UNCHANGED <<baseUrl, authHeader, depth, directories, currentPath, log>>
    /\ UNCHANGED <<settingsVars, serverVars, codecVars, loaderVars>>

\* downloadFile(url) up to the request of client.getFileContents
DownloadFile ==
    /\ pc = "done"
    /\ call.op = "uploadFile"
    /\ call.path = codecPath
    /\ codecPc = "url"
    /\ LET path == getPath(settingsUrl, settingsToken, codecUrl)
       IN  IF path = InvalidCharacterError
           THEN /\ call' = [op |-> "downloadFile", url |-> codecUrl]
                /\ Throw([type |-> "InvalidCharacterError"])
           ELSE /\ call' = OnClient([op |-> "downloadFile", url |-> codecUrl, path |-> path])
                /\ pc' = "get"
                /\ result' = [kind |-> "none"]
    /\ UNCHANGED <<baseUrl, authHeader, depth, directories, currentPath, log>>
    /\ UNCHANGED <<settingsVars, serverVars, codecVars, loaderVars>>

\* WebDavClientInner.deleteFile: the DELETE and handleResponseCode
DeleteRequest ==
    /\ pc = "delete"
    /\ Len(log) < MaxRequests
    /\ \E st \in Answers("DELETE", WireUrl(call.path), NoHeaders) :
          /\ log' = Append(log, Sent("DELETE", WireUrl(call.path), NoHeaders, st))
          /\ server' = ServerAfter("DELETE", WireUrl(call.path), NoHeaders, st)
          /\ IF st = NetworkError
             THEN Throw(NetworkFailure)
             ELSE IF HandleResponseCodeThrows(st)
             THEN Throw(TransportError(st))
             ELSE Return([type |-> "undefined"])
    /\ UNCHANGED <<baseUrl, authHeader, call, depth, directories, currentPath>>
    /\ UNCHANGED <<settingsVars, codecVars, loaderVars>>

\* WebDavClientInner.getFileContents: the GET and handleResponseCode; with the
\* body in hand downloadFile asks the host where to put the attachment
GetFileContents ==
    /\ pc = "get"
    /\ Len(log) < MaxRequests
    /\ \E st \in Answers("GET", WireUrl(call.path), NoHeaders) :
          /\ log' = Append(log, Sent("GET", WireUrl(call.path), NoHeaders, st))
          /\ server' = ServerAfter("GET", WireUrl(call.path), NoHeaders, st)
          /\ IF st = NetworkError
             THEN Throw(NetworkFailure)
             ELSE IF HandleResponseCodeThrows(st)
             THEN Throw(TransportError(st))
             ELSE pc' = "attachmentPath" /\ UNCHANGED result
    /\ UNCHANGED <<baseUrl, authHeader, call, depth, directories, currentPath>>
    /\ UNCHANGED <<settingsVars, codecVars, loaderVars>>

\* the paths the host may hand out for a file name: the name itself, the name
\* in the folder "attachments/", or that with a number when the name is taken
AttachmentPaths(fileName) ==
    LET folder == <<"a", "t", "t", "a", "c", "h", "m", "e", "n", "t", "s", "/">>
    IN  { fileName, folder \o fileName, folder \o fileName \o <<" ", "1">> }

\* downloadFile: `await fileManager.getAvailablePathForAttachment(fileName, sourcePath)`
\* with fileName = path.split("/").pop(); the host picks the path or rejects
GetAvailablePathForAttachment ==
    /\ pc = "attachmentPath"
    /\ \/ \E filePath \in AttachmentPaths(FileNameOf(call.path)) :
             /\ call' = call @@ [filePath |-> filePath]
             /\ pc' = "createBinary"
             /\ UNCHANGED result
       \/ Throw([type |-> "HostError"]) /\ UNCHANGED call
    /\ UNCHANGED <<baseUrl, authHeader, depth, directories, currentPath, log>>
    /\ UNCHANGED <<settingsVars, serverVars, codecVars, loaderVars>>

\* downloadFile: `return await vault.createBinary(filePath, resp)`: the file the
\* host made under filePath, or its rejection
CreateBinary ==
    /\ pc = "createBinary"
    /\ \/ Return([type |-> "TFile", path |-> call.filePath])
       \/ Throw([type |-> "HostError"])
    /\ UNCHANGED <<baseUrl, authHeader, call, depth, directories, currentPath, log>>
    /\ UNCHANGED <<settingsVars, serverVars, codecVars, loaderVars>>

\* a server that holds nothing but its root collection
EmptyServer(base) ==
    [scripted |-> TRUE, files |-> {}, dirs |-> {base}, files0 |-> {}, dirs0 |-> {base}]

InitAddress ==
    /\ settingsUrl \in SettingsUrls
    /\ settingsToken \in Tokens
    /\ codecPath \in CodecPaths
    /\ codecPc = "path"
    /\ codecUrl = NoString
    /\ codecBack = NoString
    /\ UserCredentials
    /\ ClientConstructed
    /\ server = EmptyServer(baseUrl)
    /\ NoRemoteImages

NextAddress ==
    \/ CallGetUrl
    \/ UploadFile
    \/ UploadFilePut
    \/ PutFileContents
    \/ EnsureDirectoryExists
    \/ DeleteFile
    \/ DeleteRequest
    \/ DownloadFile
    \/ GetFileContents
    \/ GetAvailablePathForAttachment
    \/ CreateBinary

SpecAddress == InitAddress /\ [][NextAddress]_vars

----------------------------------------------------------------------------
(* WebDavImageLoader *)

\* plugin.isWebdavUrl(url): the url points at the configured server
IsWebdavUrl(src) == src.kind = "webdav"

ShouldLoadImage(el) ==
    /\ "webdav-loaded" \notin elAttrs[el]
    /\ elSrc[el] # EmptySrc
    /\ IsWebdavUrl(elSrc[el])

NoBlob == [kind |-> "none"]

\* a lookup that never finds the entry
BlobsGetMut(url) == NoBlob

\* this.blobs.get(url)
BlobsGet(url) == IF url \in DOMAIN blobs THEN blobs[url] ELSE NoBlob

LoadingImage == IF themeDark THEN loadingDark ELSE loadingLight

\* loadImage returns without waiting for a request: nothing to load, or cached
LoadReturnsAtOnce(el) == ~ShouldLoadImage(el) \/ BlobsGet(elSrc[el]) # NoBlob

\* WebDavImageLoader.loadImage(el, cache) up to its `await requestUrl(...)`;
\* tracked: the call came from WebDavImageLoaderExtension.loadImage. The call
\* throws before the request when atob(String(password)) does
LoaderLoadImage(el, cache, tracked) ==
    IF ~ShouldLoadImage(el)
    THEN UNCHANGED <<elSrc, elAttrs, loadEventDue, pending, gets>>
    ELSE IF BlobsGet(elSrc[el]) # NoBlob
    THEN /\ elSrc' = [elSrc EXCEPT ![el] = BlobsGet(elSrc[el])]
         /\ elAttrs' = [elAttrs EXCEPT ![el] = @ \cup {"loaded"}]
         /\ loadEventDue' = [loadEventDue EXCEPT ![el] = elOnload[el]]
         /\ UNCHANGED <<pending, gets>>
    ELSE IF atob(settingsPassword) = InvalidCharacterError
    THEN /\ elSrc' = [elSrc EXCEPT ![el] = LoadingImage]
         /\ loadEventDue' = [loadEventDue EXCEPT ![el] = elOnload[el]]
         /\ UNCHANGED <<elAttrs, pending, gets>>
    ELSE /\ elSrc' = [elSrc EXCEPT ![el] = LoadingImage]
         /\ loadEventDue' = [loadEventDue EXCEPT ![el] = elOnload[el]]
         /\ pending' = pending \cup
               { [el |-> el, url |-> elSrc[el], cache |-> cache, tracked |-> tracked] }
         /\ gets' = [gets EXCEPT ![elSrc[el], cache] = @ + 1]
         /\ UNCHANGED elAttrs

\* the mutation observer reports el as added: WebDavImageLoaderExtension.loadImage(el)
\* up to its `await`. When loader.loadImage returns without a request the
\* await is settled already and what follows it waits for its turn; when it
\* threw, nothing follows. The observer is disconnected by destroy; once the
\* plugin's loader is destroyed the plugin is unloaded and no new load is
\* started, requests already sent still resolve.
Insert(el) ==
    /\ ~extDestroyed
    /\ ~loaderDestroyed
    /\ resuming[el] < MaxResumes
    /\ IF el \in images
       THEN UNCHANGED <<elSrc, elAttrs, loadEventDue, pending, gets, resuming>>
       ELSE /\ LoaderLoadImage(el, TRUE, TRUE)
            /\ resuming' = IF LoadReturnsAtOnce(el)
                           THEN [resuming EXCEPT ![el] = @ + 1]
                           ELSE resuming
    /\ UNCHANGED images
    /\ UNCHANGED <<origSrc, themeDark, elOnload, blobs, loaderDestroyed, extDestroyed,
                   nextBlob, revoked>>
    /\ UNCHANGED <<settingsVars, clientVars, serverVars, codecVars>>

\* plugin.loader.loadImage(el, false): a load that is not to be cached
LoadUncached(el) ==
    /\ ~loaderDestroyed
    /\ LoaderLoadImage(el, FALSE, FALSE)
    /\ UNCHANGED <<origSrc, themeDark, elOnload, blobs, loaderDestroyed, images, resuming,
                   extDestroyed, nextBlob, revoked>>
    /\ UNCHANGED <<settingsVars, clientVars, serverVars, codecVars>>

\* requestUrl resolves: the rest of WebDavImageLoader.loadImage; when the call
\* came from WebDavImageLoaderExtension.loadImage its await is settled by that
ResolveLoad(r) ==
    /\ LET h == BlobUrl(nextBlob + 1)
       IN  /\ nextBlob' = nextBlob + 1
           /\ elSrc' = [elSrc EXCEPT ![r.el] = h]
           /\ elAttrs' = [elAttrs EXCEPT ![r.el] = @ \cup {"loaded"}]
           /\ IF r.cache
              THEN blobs' = (r.url :> h) @@ blobs /\ UNCHANGED elOnload
              ELSE elOnload' = [elOnload EXCEPT ![r.el] = TRUE] /\ UNCHANGED blobs
           /\ loadEventDue' = [loadEventDue EXCEPT ![r.el] = elOnload'[r.el]]
    /\ resuming' = IF r.tracked THEN [resuming EXCEPT ![r.el] = @ + 1] ELSE resuming
    /\ pending' = pending \ {r}
    /\ UNCHANGED images
    /\ UNCHANGED <<origSrc, themeDark, loaderDestroyed, extDestroyed, revoked, gets>>
    /\ UNCHANGED <<settingsVars, clientVars, serverVars, codecVars>>

FetchResolve(el) == \E r \in pending : r.el = el /\ ResolveLoad(r)

\* WebDavImageLoaderExtension.loadImage after its `await`: this.images.add(el),
\* whether or not destroy has run in between
ExtensionLoadImageResume(el) ==
    /\ resuming[el] > 0
    /\ resuming' = [resuming EXCEPT ![el] = @ - 1]
    /\ images' = images \cup {el}
    /\ UNCHANGED <<origSrc, themeDark, elSrc, elAttrs, elOnload, loadEventDue, blobs,
                   pending, loaderDestroyed, extDestroyed, nextBlob, revoked, gets>>
    /\ UNCHANGED <<settingsVars, clientVars, serverVars, codecVars>>

\* a rejection handled by putting the url back into el.src
FetchRejectMut(el) ==
    /\ \E r \in pending :
          /\ r.el = el
          /\ pending' = pending \ {r}
          /\ elSrc' = [elSrc EXCEPT ![el] = r.url]
    /\ UNCHANGED <<origSrc, themeDark, elAttrs, elOnload, loadEventDue, blobs,
                   loaderDestroyed, images, resuming, extDestroyed, nextBlob, revoked, gets>>
    /\ UNCHANGED <<settingsVars, clientVars, serverVars, codecVars>>

\* requestUrl rejects (no answer, or a status of 400 and above): both loadImage
\* calls end in the rejection, nothing after the await runs
FetchReject(el) ==
    /\ \E r \in pending : r.el = el /\ pending' = pending \ {r}
    /\ UNCHANGED <<origSrc, themeDark, elSrc, elAttrs, elOnload, loadEventDue, blobs,
                   loaderDestroyed, images, resuming, extDestroyed, nextBlob, revoked, gets>>
    /\ UNCHANGED <<settingsVars, clientVars, serverVars, codecVars>>

\* the browser finished loading el's src and fires `load` on an element that
\* has the handler: el.onload = () => URL.revokeObjectURL(el.src)
\* (revoking a url that is no blob url does nothing)
ImageLoadEvent(el) ==
    /\ loadEventDue[el]
    /\ loadEventDue' = [loadEventDue EXCEPT ![el] = FALSE]
    /\ revoked' = IF elSrc[el].kind = "blob" THEN revoked \cup {elSrc[el]} ELSE revoked
    /\ UNCHANGED <<origSrc, themeDark, elSrc, elAttrs, elOnload, blobs, pending,
                   loaderDestroyed, images, resuming, extDestroyed, nextBlob, gets>>
    /\ UNCHANGED <<settingsVars, clientVars, serverVars, codecVars>>

\* the keys revokeImage finds for the elements of a set: blobs.get(el.src) != null
RevokeImageKeys(els) == { elSrc[el] : el \in els } \cap DOMAIN blobs

\* WebDavImageLoaderExtension.destroy
ExtensionDestroy ==
    /\ ~extDestroyed
    /\ extDestroyed' = TRUE
    /\ LET keys == RevokeImageKeys(images)
       IN  /\ revoked' = revoked \cup { blobs[k] : k \in keys }
           /\ blobs' = [k \in DOMAIN blobs \ keys |-> blobs[k]]
    /\ images' = {}
    /\ UNCHANGED resuming
    /\ UNCHANGED <<origSrc, themeDark, elSrc, elAttrs, elOnload, loadEventDue, pending,
                   loaderDestroyed, nextBlob, gets>>
    /\ UNCHANGED <<settingsVars, clientVars, serverVars, codecVars>>

\* WebDavImageLoader.destroy
LoaderDestroy ==
    /\ ~loaderDestroyed
    /\ loaderDestroyed' = TRUE
    /\ revoked' = revoked \cup { blobs[k] : k \in DOMAIN blobs }
    /\ blobs' = <<>>
    /\ UNCHANGED <<origSrc, themeDark, elSrc, elAttrs, elOnload, loadEventDue, pending,
                   images, resuming, extDestroyed, nextBlob, gets>>
    /\ UNCHANGED <<settingsVars, clientVars, serverVars, codecVars>>

\* revokeImage without its blobs.delete
RevokeImageOnMut(c, src) ==
    IF src \in DOMAIN c.blobs
    THEN [c EXCEPT !.revoked = @ \cup {c.blobs[src]}, !.calls = @ + 1]
    ELSE c

\* WebDavImageLoader.revokeImage(el) with el.src = src, on the cache c.blobs:
\* c.revoked are the urls revoked so far, c.calls counts URL.revokeObjectURL
RevokeImageOn(c, src) ==
    IF src \in DOMAIN c.blobs
    THEN [blobs |-> [k \in DOMAIN c.blobs \ {src} |-> c.blobs[k]],
          revoked |-> c.revoked \cup {c.blobs[src]},
          calls |-> c.calls + 1]
    ELSE c

\* the cache and the platform as revokeImage finds them
CacheNow == [blobs |-> blobs, revoked |-> revoked, calls |-> 0]

\* plugin.loader.revokeImage(el) called on its own
RevokeImage(el) ==
    /\ LET c == RevokeImageOn(CacheNow, elSrc[el])
       IN  blobs' = c.blobs /\ revoked' = c.revoked
    /\ UNCHANGED <<origSrc, themeDark, elSrc, elAttrs, elOnload, loadEventDue, pending,
                   loaderDestroyed, images, resuming, extDestroyed, nextBlob, gets>>
    /\ UNCHANGED <<settingsVars, clientVars, serverVars, codecVars>>

InitLoader ==
    /\ origSrc \in [Elements -> OrigSrcs]
    /\ themeDark \in BOOLEAN
    /\ LoaderConstructed
    /\ settingsUrl = UrlRemote
    /\ settingsToken = TokenNone
    /\ UserCredentials
    /\ ClientConstructed
    /\ server = AnyServer
    /\ codecPc = "path"
    /\ codecPath = PathI
    /\ codecUrl = NoString
    /\ codecBack = NoString

NextLoader ==
    \/ \E el \in Elements : Insert(el)
    \/ \E el \in Elements : LoadUncached(el)
    \/ \E el \in Elements : FetchResolve(el)
    \/ \E el \in Elements : ExtensionLoadImageResume(el)
    \/ \E el \in Elements : FetchReject(el)
    \/ \E el \in Elements : ImageLoadEvent(el)
    \/ ExtensionDestroy
    \/ LoaderDestroy

SpecLoader == InitLoader /\ [][NextLoader]_vars

----------------------------------------------------------------------------
(* The loader in a view that renders into the image elements it has *)

\* the GETs loadImage has handed to requestUrl
RequestsSent ==
    LET Sum[S \in SUBSET (RemoteUrls \X BOOLEAN)] ==
           IF S = {}
           THEN 0
           ELSE LET x == CHOOSE y \in S : TRUE
                IN  gets[x[1], x[2]] + Sum[S \ {x}]
    IN  Sum[RemoteUrls \X BOOLEAN]

\* the host renders the embed into el again: el.src is the url of the server
\* once more. The attributes and el.onload stay as loadImage left them; the
\* load of the old src is dropped with it
HostSetSrc(el) ==
    /\ ~loaderDestroyed
    /\ origSrc[el] \in RemoteUrls
    /\ elSrc[el] # origSrc[el]
    /\ \A r \in pending : r.el # el
    /\ RequestsSent < MaxLoads
    /\ elSrc' = [elSrc EXCEPT ![el] = origSrc[el]]
    /\ loadEventDue' = [loadEventDue EXCEPT ![el] = FALSE]
    /\ UNCHANGED <<origSrc, themeDark, elAttrs, elOnload, blobs, pending,
                   loaderDestroyed, images, resuming, extDestroyed, nextBlob, revoked, gets>>
    /\ UNCHANGED <<settingsVars, clientVars, serverVars, codecVars>>

NextRerender ==
    \/ \E el \in Elements : Insert(el)
    \/ \E el \in Elements : LoadUncached(el)
    \/ \E el \in Elements : FetchResolve(el)
    \/ \E el \in Elements : ExtensionLoadImageResume(el)
    \/ \E el \in Elements : FetchReject(el)
    \/ \E el \in Elements : ImageLoadEvent(el)
    \/ \E el \in Elements : HostSetSrc(el)
    \/ ExtensionDestroy
    \/ LoaderDestroy

SpecRerender == InitLoader /\ [][NextRerender]_vars

----------------------------------------------------------------------------
(* The loader in such a view, with revokeImage also called by other code of
   the plugin *)

NextRelease ==
    \/ \E el \in Elements : Insert(el)
    \/ \E el \in Elements : LoadUncached(el)
    \/ \E el \in Elements : FetchResolve(el)
    \/ \E el \in Elements : ExtensionLoadImageResume(el)
    \/ \E el \in Elements : FetchReject(el)
    \/ \E el \in Elements : ImageLoadEvent(el)
    \/ \E el \in Elements : HostSetSrc(el)
    \/ \E el \in Elements : RevokeImage(el)
    \/ ExtensionDestroy
    \/ LoaderDestroy

SpecRelease == InitLoader /\ [][NextRelease]_vars

----------------------------------------------------------------------------
(* Properties *)

\* how many requests of one method the call has sent
CountMethod(m) == Cardinality({ i \in 1..Len(log) : log[i].method = m })

Answered(i) == log[i].status \in Statuses

\* C1: uploadFile whose first PUT is answered 409, whose MKCOLs are all answered
\* below 400 or with 405/409 and whose retried PUT is answered below 400
\* returns {fileName, url} and does not raise
C1_UploadIntoMissingDirectory ==
    ( /\ call.op = "uploadFile"
      /\ pc = "done"
      /\ CountMethod("PUT") = 2
      /\ CountMethod("MKCOL") >= 1
      /\ log[1].method = "PUT" /\ log[1].status = 409
      /\ \A i \in 1..Len(log) :
            log[i].method = "MKCOL" => Answered(i) /\ MkcolTolerated(log[i].status)
      /\ log[Len(log)].method = "PUT"
      /\ Answered(Len(log)) /\ log[Len(log)].status < 400 )
    => /\ result.kind = "return"
       /\ result.value.type = "FileInfo"
       /\ result.value.fileName = call.fileName
       /\ result.value.url = getUrl(settingsUrl, settingsToken, call.path)

\* C2: one call of putFileContents sends at most two PUT requests, and a 409
\* on the retried PUT ends the call with an error
C2_AtMostTwoPuts ==
    call.op = "uploadFile" =>
       /\ CountMethod("PUT") <= 2
       /\ ( /\ CountMethod("PUT") = 2
            /\ log[Len(log)].method = "PUT"
            /\ log[Len(log)].status = 409 )
          => (pc = "done" /\ result.kind = "throw")

\* C3: one call of moveFile sends at most two MOVE requests, and a 404/409/500
\* on the retried MOVE ends the call with an error
C3_AtMostTwoMoves ==
    call.op \in {"renameFile", "moveFile"} =>
       /\ CountMethod("MOVE") <= 2
       /\ ( /\ CountMethod("MOVE") = 2
            /\ log[Len(log)].method = "MOVE"
            /\ log[Len(log)].status \in MoveRetryStatuses )
          => (pc = "done" /\ result.kind = "throw")

\* C4: moveFile with overwrite = false whose HEAD on the destination is answered
\* 200 raises the destination-exists error and sends no MOVE and no MKCOL;
\* renameFile always passes overwrite = false
C4_NoMoveWhenDestinationExists ==
    /\ call.op = "renameFile" => ~call.overwrite
    /\ ( /\ call.op \in {"renameFile", "moveFile"}
         /\ ~call.overwrite
         /\ Len(log) >= 1
         /\ log[1].method = "HEAD" /\ log[1].status = 200 )
       => /\ pc = "done"
          /\ result = [kind |-> "throw", error |-> DestinationExists(call.newPath)]
          /\ CountMethod("MOVE") = 0
          /\ CountMethod("MKCOL") = 0

C4_Witness ==
    /\ call.op = "renameFile"
    /\ Len(log) = 1
    /\ log[1].method = "HEAD" /\ log[1].status = 200
    /\ result.kind = "throw"

\* C5: the loader sends at most one GET per remote url for its cached loads,
\* also when two elements with the same url are inserted before the first
\* element's request has resolved
C5_AtMostOneGetPerUrl == \A u \in RemoteUrls : gets[u, TRUE] <= 1

\* the GETs sent for one url, cached and uncached loads together
GetsFor(u) == gets[u, TRUE] + gets[u, FALSE]

\* C6: a load request for an element whose url is already cached (an earlier
\* request has completed and stored its blob) assigns the cached blob url
\* directly, with no loading image in between, marks the element loaded and
\* sends no request; the element that was loaded first holds the same blob url
C6_SecondLoadServedFromCache ==
    [][ \A el \in Elements :
          ( /\ elSrc[el] \in RemoteUrls
            /\ elSrc[el] \in DOMAIN blobs
            /\ elSrc'[el] # elSrc[el] )
          => /\ elSrc'[el] = blobs[elSrc[el]]
             /\ "loaded" \in elAttrs'[el]
             /\ gets' = gets
             /\ nextBlob' = nextBlob
             /\ pending' = pending
             /\ \E first \in Elements \ {el} :
                   /\ origSrc[first] = origSrc[el]
                   /\ elSrc'[first] = elSrc'[el]
                   /\ "loaded" \in elAttrs'[first] ]_vars

C6_Witness ==
    \E first \in Elements, second \in Elements :
       /\ first # second
       /\ origSrc[first] \in RemoteUrls
       /\ origSrc[second] = origSrc[first]
       /\ GetsFor(origSrc[first]) = 1
       /\ elSrc[first].kind = "blob"
       /\ elSrc[second] = elSrc[first]
       /\ "loaded" \in elAttrs[first] /\ "loaded" \in elAttrs[second]
       /\ pending = {}

\* C7: WebDavImageLoaderExtension.destroy releases, for every tracked element
\* that was loaded through the cache, the blob cached for the element's
\* original url (revoked, entry gone) and leaves the tracking set empty
C7_DestroyReleasesTracked ==
    [][ (~extDestroyed /\ extDestroyed') =>
          /\ images' = {}
          /\ \A el \in images :
                ("loaded" \in elAttrs[el] /\ origSrc[el] \in DOMAIN blobs)
                => /\ origSrc[el] \notin DOMAIN blobs'
                   /\ blobs[origSrc[el]] \in revoked' ]_vars

\* C8: testConnection never raises; it returns null exactly when its PROPFIND
\* on the root with Depth: 0 is answered 207, and an error string for every
\* other status and for every error the request throws
C8_TestConnectionNeverThrows ==
    call.op = "testConnection" =>
       /\ result.kind # "throw"
       /\ Len(log) <= 1
       /\ pc = "done" <=> Len(log) = 1
       /\ Len(log) = 1 =>
             /\ log[1].method = "PROPFIND"
             /\ log[1].url = call.base \o PathRoot
             /\ log[1].headers["Depth"] = "0"
             /\ result.kind = "return"
             /\ result.value.type \in {"null", "string"}
             /\ result.value.type = "null" <=> log[1].status = 207

C8_Witness ==
    /\ call.op = "testConnection"
    /\ pc = "done"
    /\ log[1].status = 207
    /\ result = [kind |-> "return", value |-> [type |-> "null"]]

\* C9: every request carries the Authorization value configured at
\* construction, whatever headers the caller supplied
C9_AuthorizationKept ==
    \A i \in 1..Len(log) : log[i].headers["Authorization"] = log[i].configured

\* C10: getPath(getUrl(path)) = path for every path, including paths with
\* characters that URI encoding rewrites (space, non-ASCII, '%')
C10_RoundTrip == codecPc = "back" => codecBack = codecPath

\* C11: when a request of uploadFile was answered with a status of 400 or above
\* and the call raised, the error raised is the upload-failure error that names
\* the file
C11_UploadFailureNamesFile ==
    ( /\ call.op = "uploadFile"
      /\ pc = "done"
      /\ result.kind = "throw"
      /\ Len(log) >= 1
      /\ Answered(Len(log))
      /\ HandleResponseCodeThrows(log[Len(log)].status) )
    => /\ result.error.type = "UploadFailed"
       /\ result.error.fileName = call.fileName

\* what exists(path) returns against the server as it is now
ExistsNow(path) == ExistsResult(ServerStatus(server, "HEAD", WireUrl(path), NoHeaders))

\* the call is a moveFile with overwrite = false that started with the old
\* path a file on the server and nothing at the new path
MoveOntoFreePath ==
    /\ call.op \in {"renameFile", "moveFile"}
    /\ ~call.overwrite
    /\ WireUrl(call.oldPath) \in server.files0
    /\ WireUrl(call.newPath) \notin server.files0 \cup server.dirs0

\* C12: against a WebDAV server on which the old path exists and the new one
\* does not, moveFile(old, new, false) returns without an error and afterwards
\* exists(old) is false and exists(new) is true, also when the collection the
\* new path lies in was missing before the call
C12_MoveAgainstServer ==
    (MoveOntoFreePath /\ pc = "done")
    => /\ result = [kind |-> "return", value |-> [type |-> "undefined"]]
       /\ ExistsNow(call.oldPath) = "false"
       /\ ExistsNow(call.newPath) = "true"

\* a finished move into a collection that was missing: the MOVE was refused,
\* the collection was created and the second MOVE went through
C12_Witness ==
    /\ MoveOntoFreePath
    /\ pc = "done"
    /\ ServerParent(WireUrl(call.newPath)) \notin server.dirs0
    /\ CountMethod("MKCOL") = 1
    /\ CountMethod("MOVE") = 2
    /\ result.kind = "return"

\* C13: releasing a cached blob is idempotent. Every revokeImage(el) the loader
\* runs, with key = el.src: when it finds the key it revokes the handle of that
\* key with one URL.revokeObjectURL call and removes that entry and no other
\* (every other entry stays with its handle, no other handle is revoked); when
\* it finds no entry it changes nothing. It leaves el.src as it was and no
\* entry for the key, so that a release of the same key in the state it leaves,
\* the second of two in a row, calls URL.revokeObjectURL no more and changes
\* nothing
C13_ReleaseIdempotent ==
    [][\A el \in Elements :
          RevokeImage(el) =>
             LET key == elSrc[el]
                 left == [blobs |-> blobs', revoked |-> revoked', calls |-> 0]
             IN  /\ key \in DOMAIN blobs =>
                       /\ DOMAIN blobs' = DOMAIN blobs \ {key}
                       /\ \A k \in DOMAIN blobs \ {key} : blobs'[k] = blobs[k]
                       /\ revoked' = revoked \cup {blobs[key]}
                       /\ RevokeImageOn(CacheNow, key).calls = 1
                 /\ key \notin DOMAIN blobs =>
                       /\ blobs' = blobs
                       /\ revoked' = revoked
                       /\ RevokeImageOn(CacheNow, key).calls = 0
                 /\ elSrc'[el] = key
                 /\ key \notin DOMAIN blobs'
                 /\ RevokeImageOn(left, key) = left
      ]_vars

\* two urls of the server were loaded into the cache, one element was rendered
\* again and shows its url of the server, and revokeImage released the entry of
\* that url: its handle is revoked and its entry gone, while the entry of the
\* other url is still in the cache with its handle, not revoked. No element
\* has a load handler and nothing was torn down, so that only revokeImage can
\* have revoked the handle
C13_Witness ==
    /\ ~extDestroyed
    /\ ~loaderDestroyed
    /\ \A e \in Elements : ~elOnload[e]
    /\ nextBlob = 2
    /\ \E el, other \in Elements :
          /\ elSrc[el] \in RemoteUrls
          /\ elSrc[el] \notin DOMAIN blobs
          /\ gets[elSrc[el], TRUE] = 1
          /\ origSrc[other] \in DOMAIN blobs
          /\ origSrc[other] # elSrc[el]
          /\ elSrc[other] = blobs[origSrc[other]]
          /\ elSrc[other] \notin revoked
          /\ \E n \in 1..nextBlob :
                /\ BlobUrl(n) \in revoked
                /\ BlobUrl(n) # elSrc[other]

HasPending(el) == \E r \in pending : r.el = el

\* el shows the loading image and no request is out for it: its fetch failed
FetchFailed(el) == elSrc[el] = LoadingImage /\ ~HasPending(el)

\* C14: a failed authenticated fetch leaves the element a placeholder for ever:
\* the step in which the request of el fails changes neither el.src, which is
\* the loading image, nor the attributes of el nor the cache, and from then on
\* every step leaves el.src and the attributes of el as they are, el is not
\* marked loaded, and no request is sent for el again, whatever is inserted
C14_FailedFetchStaysPlaceholder ==
    [][ \A el \in Elements :
          /\ (HasPending(el) /\ ~HasPending(el)' /\ nextBlob' = nextBlob)
             => /\ elSrc'[el] = LoadingImage
                /\ elSrc'[el] = elSrc[el]
                /\ elAttrs'[el] = elAttrs[el]
                /\ blobs' = blobs
                /\ gets' = gets
          /\ FetchFailed(el)
             => /\ FetchFailed(el)'
                /\ elSrc'[el] = elSrc[el]
                /\ elAttrs'[el] = elAttrs[el]
                /\ "loaded" \notin elAttrs[el]
                /\ \A r \in pending' \ pending : r.el # el
                /\ gets' # gets => \E r \in pending' \ pending : r.el # el ]_vars

\* an element whose only fetch failed and that was reported as inserted again:
\* it is tracked, still shows the loading image, and its url is not cached
C14_Witness ==
    \E el \in Elements :
       /\ FetchFailed(el)
       /\ el \in images
       /\ origSrc[el] \in RemoteUrls
       /\ GetsFor(origSrc[el]) = 1
       /\ origSrc[el] \notin DOMAIN blobs
       /\ "loaded" \notin elAttrs[el]

\* C15: a MOVE answered 412 ends moveFile with the destination-exists error,
\* whatever the HEAD before it said and also with overwrite = true; nothing is
\* sent after it, no second MOVE and no MKCOL
C15_PreconditionFailedIsDestinationExists ==
    call.op \in {"renameFile", "moveFile"} =>
       \A i \in 1..Len(log) :
          (log[i].method = "MOVE" /\ log[i].status = 412)
          => /\ i = Len(log)
             /\ pc = "done"
             /\ result.kind = "throw"
             /\ result.error = DestinationExists(call.newPath)

\* the race: the HEAD said the destination is absent, the MOVE found it
C15_Witness ==
    /\ call.op \in {"renameFile", "moveFile"}
    /\ ~call.overwrite
    /\ Len(log) = 2
    /\ log[1].method = "HEAD" /\ log[1].status = 404
    /\ log[2].method = "MOVE" /\ log[2].status = 412
    /\ result.kind = "throw"
    /\ result.error = DestinationExists(call.newPath)

\* the path whose parent directory the call creates
EnsureTarget == IF call.op = "uploadFile" THEN call.path ELSE call.newPath

\* the first request of the run of MKCOLs that request i belongs to
PassStart(i) ==
    CHOOSE j \in 1..i :
       /\ \A k \in j..i : log[k].method = "MKCOL"
       /\ j = 1 \/ log[j - 1].method # "MKCOL"

\* "/" + dirs[1] + "/" + ... + dirs[k]
RECURSIVE PrefixPath(_, _)
PrefixPath(dirs, k) ==
    IF k = 0 THEN <<>> ELSE PrefixPath(dirs, k - 1) \o Slash \o dirs[k]

\* C16: ensureDirectoryExists sends one MKCOL per cumulative prefix of the
\* directory, shallowest first; after an answer of 405 or 409 (or below 400)
\* the next prefix is tried; any other answer of 400 or above, or no answer,
\* ends the call with an error at once and no MKCOL is sent for the rest
C16_MkcolPerPrefixInOrder ==
    call.op \in {"uploadFile", "renameFile", "moveFile"} =>
       LET dirs == DirectoriesOf(ParentOf(EnsureTarget))
       IN  \A i \in 1..Len(log) :
              log[i].method = "MKCOL" =>
                 LET k == i - PassStart(i) + 1
                     st == log[i].status
                     goesOn == st \in {405, 409} \/ (st # NetworkError /\ st < 400)
                 IN  /\ k <= Len(dirs)
                     /\ log[i].url = WireUrl(PrefixPath(dirs, k))
                     /\ (goesOn /\ k < Len(dirs))
                        => IF i < Len(log)
                           THEN log[i + 1].method = "MKCOL"
                           ELSE pc = "mkcol"
                     /\ (goesOn /\ k = Len(dirs))
                        => (i < Len(log) => log[i + 1].method # "MKCOL")
                     /\ ~goesOn
                        => /\ i = Len(log)
                           /\ pc = "done"
                           /\ result.kind = "throw"
                           /\ st # NetworkError => result.error = TransportError(st)

\* /a b answered 409 and passed over, /a b/c answered 500: the call ends there
C16_Witness ==
    /\ call.op = "uploadFile"
    /\ call.path = PathABI
    /\ Len(log) = 3
    /\ log[2].method = "MKCOL" /\ log[2].url = WireUrl(PathAB) /\ log[2].status = 409
    /\ log[3].method = "MKCOL" /\ log[3].url = WireUrl(PathABC) /\ log[3].status = 500
    /\ pc = "done"
    /\ result.kind = "throw"

\* C17: an element is in the tracking set only if it was wired to a load: the
\* src it was inserted with points at the server and a load, from the cache or
\* by a fetch, was done for it
C17_TrackedOnlyIfLoaded ==
    \A el \in images :
       /\ origSrc[el] \in RemoteUrls
       /\ elSrc[el].kind = "blob"
       /\ "loaded" \in elAttrs[el]

\* C18: once WebDavImageLoaderExtension.destroy has run the tracking set is
\* empty in every later state, also when a fetch that was started before
\* resolves after it
C18_TrackingEmptyAfterDestroy == extDestroyed => images = {}

\* the blob urls made by loads with cache = true: an element keeps the url its
\* load made, and a load with cache = false leaves its onload handler on it
CachedLoadHandles ==
    { elSrc[el] : el \in { e \in Elements : elSrc[e].kind = "blob" /\ ~elOnload[e] } }

\* C19: WebDavImageLoader.destroy leaves the cache empty and every blob url
\* that a load with cache = true has made revoked, also after two overlapping
\* loads of one url that each made a blob url and wrote the same key
C19_DestroyRevokesEveryHandle ==
    [][ (~loaderDestroyed /\ loaderDestroyed')
        => /\ DOMAIN blobs' = {}
           /\ CachedLoadHandles \subseteq revoked' ]_vars

\* C20: every blob url the cache holds is live: a blob url is revoked only
\* when its entry leaves the cache, and the revoke that a load with
\* cache = false leaves on the element never hits a blob url the cache holds,
\* also when that element is loaded again and served through the cache
C20_CachedHandlesLive == \A k \in DOMAIN blobs : blobs[k] \notin revoked

\* C21: deleteFile(url) and downloadFile(url) with url = getUrl(path) send
\* their DELETE / GET to the wire url that putFileContents(path) sent its PUT
\* to, for every path, also one with characters that are percent-encoded: no
\* segment is encoded twice
C21_SameWireUrl ==
    call.op \in {"deleteFile", "downloadFile"} =>
       \A i, j \in 1..Len(log) :
          (log[i].method \in {"DELETE", "GET"} /\ log[j].method = "PUT")
          => log[i].url = log[j].url

====
